---- MODULE Spec2Model ----
(***************************************************************************)
(* Consensus-gated submission pipeline of the blockchain bridge            *)
(* (src/bridge/blockchain_bridge.py): the PBFT coordinator, the /submit    *)
(* handler and the ledger it writes to through web3.                       *)
(*                                                                         *)
(* Representation.                                                         *)
(*  - Real-valued fields are fixed point, one decimal place finer than the *)
(*    precision the payload rounds them to: rf_confidence and              *)
(*    anomaly_score in units of 1e-7 (rounded to 1e-6), risk_score in      *)
(*    units of 1e-5 (rounded to 1e-4).                                     *)
(*  - An Optional value is a set with at most one element ({} is None).    *)
(*  - A node identifier "NODE_k" is the integer k.                         *)
(*  - /submit is an `async def` without any await: the event loop runs one *)
(*    handler at a time from its first line to its return.  `running` is   *)
(*    the request the loop is executing (0: the loop is idle).             *)
(***************************************************************************)
EXTENDS Integers, Sequences, FiniteSets, TLC

\* ------------------------------------------------------------------ bounds
MaxN == 4        \* Spec: coordinators of up to MaxN nodes
MaxNodes == 7    \* QuorumSpec: coordinators of up to MaxNodes nodes
MaxReq == 2      \* requests served
MaxTime == 1     \* clock readings 0..MaxTime

Req == 1..MaxReq
\* no node at all, and 3 to MaxN nodes (QuorumSpec takes every count)
NodeCounts == {0} \cup 3..MaxN
FaultCounts == (0 - 1)..(MaxN \div 3)

\* ------------------------------------------------------------------ inputs
\* TX-1: 0.92, -0.31, 82.5
Body1 ==
  [transaction_id |-> "TX-1", participant_id |-> "P-1", rf_prediction |-> 1,
   rf_confidence |-> 9200000, anomaly_score |-> 0 - 3100000, risk_score |-> 8250000,
   is_anomaly |-> TRUE, record_type |-> "PREDICTION", metadata |-> <<>>]
\* TX-2: 0.505, 0.12, 75.5
Body2 ==
  [transaction_id |-> "TX-2", participant_id |-> "P-2", rf_prediction |-> 0,
   rf_confidence |-> 5050000, anomaly_score |-> 1200000, risk_score |-> 7550000,
   is_anomaly |-> FALSE, record_type |-> "SHIPMENT", metadata |-> <<>>]

\* Request bodies that pass the MLPredictionInput constraints.
Attestations == {Body1, Body2}

\* Body1 with one field changed at a time.
Variants ==
  { [Body1 EXCEPT !.transaction_id = "TX-3"],
    [Body1 EXCEPT !.participant_id = "P-2"],
    [Body1 EXCEPT !.record_type = "ANOMALY"],
    [Body1 EXCEPT !.is_anomaly = FALSE],
    [Body1 EXCEPT !.rf_prediction = 0],
    [Body1 EXCEPT !.rf_confidence = 9200004],      \* 0.9200004
    [Body1 EXCEPT !.rf_confidence = 9200010],      \* 0.920001
    [Body1 EXCEPT !.anomaly_score = 0 - 3100006],  \* -0.3100006
    [Body1 EXCEPT !.risk_score = 8250004],         \* 82.50004
    [Body1 EXCEPT !.risk_score = 435000],          \* 4.35
    [Body1 EXCEPT !.risk_score = 7550500],         \* 75.505
    [Body1 EXCEPT !.risk_score = 8250900],         \* 82.509
    [Body1 EXCEPT !.risk_score = 10000000],        \* 100.0
    [Body1 EXCEPT !.metadata = << <<"region", "US-WEST">> >>] }

\* Bodies with one field outside its MLPredictionInput range.
OutOfRangeBodies ==
  { [Body1 EXCEPT !.rf_confidence = 15000000],     \* 1.5
    [Body1 EXCEPT !.rf_prediction = 2],
    [Body1 EXCEPT !.risk_score = 10000001],        \* 100.00001
    [Body1 EXCEPT !.risk_score = 0 - 1] }

Bodies == Attestations \cup Variants \cup OutOfRangeBodies
\* the bodies of Spec: the two attestations and rf_confidence 1.5
SpecBodies == Attestations \cup {[Body1 EXCEPT !.rf_confidence = 15000000]}

VARIABLES
  constructed,   \* the module-level coordinator `pbft` exists
  pbft,          \* PBFTCoordinator fields: n, f, required_prepare, required_commit, view, sequence
  broadcast,     \* PRE-PREPARE messages the leader has issued, in order
  now,           \* the latest value int(time.time()) returned
  running,       \* request the event loop is executing, 0 when idle
  req,           \* per request: handler position and locals
  records,       \* ledger: records stored by submitRecord, record id = index
  txlog,         \* ledger: submitRecord transactions it received, in order
  reply          \* what the query handler that ran last returned ({}: none ran)

vars == <<constructed, pbft, broadcast, now, running, req, records, txlog, reply>>

\* ------------------------------------------------------------ pure helpers
\* range(lo, hi) as a list
Range(lo, hi) == [i \in 1..(IF hi > lo THEN hi - lo ELSE 0) |-> lo + i - 1]

\* round(): x / d to the nearest integer, a tie to the even one
RoundHalfEven(x, d) ==
  LET q == x \div d
      rem == x % d
  IN IF 2 * rem > d \/ (2 * rem = d /\ q % 2 = 1) THEN q + 1 ELSE q

\* round(x, 6) of a value in units of 1e-7: the result in units of 1e-6
Round6(x) == RoundHalfEven(x, 10)
\* round(x, 4) of a value in units of 1e-5: the result in units of 1e-4
Round4(x) == RoundHalfEven(x, 10)

\* slip: risk_score is left out of the payload
BuildPayloadNoRisk(data, ts) ==
  << <<"transaction_id", data.transaction_id>>,
     <<"rf_prediction", data.rf_prediction>>,
     <<"rf_confidence", Round6(data.rf_confidence)>>,
     <<"anomaly_score", Round6(data.anomaly_score)>>,
     <<"timestamp", ts>>,
     <<"metadata", data.metadata>> >>
\* the payload dict of submit_ml_prediction: its items in insertion order
BuildPayload(data, ts) ==
  << <<"transaction_id", data.transaction_id>>,
     <<"rf_prediction", data.rf_prediction>>,
     <<"rf_confidence", Round6(data.rf_confidence)>>,
     <<"anomaly_score", Round6(data.anomaly_score)>>,
     <<"risk_score", Round4(data.risk_score)>>,
     <<"timestamp", ts>>,
     <<"metadata", data.metadata>> >>

\* Python's order of the payload's keys
KeyOrder ==
  <<"anomaly_score", "metadata", "rf_confidence", "rf_prediction",
    "risk_score", "timestamp", "transaction_id">>
KeyRank(k) == CHOOSE i \in 1..Len(KeyOrder) : KeyOrder[i] = k

\* slip: the items are serialized in insertion order
SortKeysOmitted(items) == items
\* sort_keys=True: the items of a dict ordered by key
SortKeys(items) ==
  LET n == Len(items)
      rank == [j \in 1..n |-> KeyRank(items[j][1])]
      pos == [i \in 1..n |-> 1 + Cardinality({j \in 1..n : rank[j] < rank[i]})]
  IN [k \in 1..n |-> items[CHOOSE i \in 1..n : pos[i] = k]]

\* json.dumps(payload, sort_keys=True)
CanonicalJson(p) == SortKeys(p)

\* "0x" + sha256(canonical).hexdigest(); SHA-256 taken as collision free
compute_sha256(p) == <<"0x", CanonicalJson(p)>>

\* bytes.fromhex(hex_hash.replace("0x", ""))
hash_to_bytes32(h) == h[2]

\* ---------------------------------------------- src/ml/ml_pipeline.py
\* slip: anomaly_score goes into the payload unrounded
FingerprintPayloadUnrounded(transaction_id, rf_prediction, rf_confidence, anomaly_score, risk_score, metadata, ts) ==
  << <<"transaction_id", transaction_id>>,
     <<"rf_prediction", rf_prediction>>,
     <<"rf_confidence", Round6(rf_confidence)>>,
     <<"anomaly_score", anomaly_score>>,
     <<"risk_score", Round4(risk_score)>>,
     <<"timestamp", ts>>,
     <<"metadata", metadata>> >>
\* the payload dict of create_digital_fingerprint, ts being its clock
\* reading; str(), int() and float() leave a str, an int and a float as
\* they are
FingerprintPayload(transaction_id, rf_prediction, rf_confidence, anomaly_score, risk_score, metadata, ts) ==
  << <<"transaction_id", transaction_id>>,
     <<"rf_prediction", rf_prediction>>,
     <<"rf_confidence", Round6(rf_confidence)>>,
     <<"anomaly_score", Round6(anomaly_score)>>,
     <<"risk_score", Round4(risk_score)>>,
     <<"timestamp", ts>>,
     <<"metadata", metadata>> >>

\* create_digital_fingerprint: payload, payload_string and sha256_hash
create_digital_fingerprint(transaction_id, rf_prediction, rf_confidence, anomaly_score, risk_score, metadata, ts) ==
  LET payload == FingerprintPayload(transaction_id, rf_prediction, rf_confidence,
                                    anomaly_score, risk_score, metadata, ts)
      payload_string == SortKeys(payload)
  IN [payload |-> payload, payload_string |-> payload_string,
      sha256_hash |-> <<"0x", payload_string>>]

\* The risk scores of this model's bodies whose double product
\* risk_score * 100 lies just below the exact product (4.35 * 100 is
\* 434.99999999999994).
Mul100Short == {435000}
\* data.risk_score * 100 in double arithmetic, in units of 1e-5
FloatMul100(rs) == rs * 100 - (IF rs \in Mul100Short THEN 1 ELSE 0)

\* int(data.risk_score * 100)
RiskScoreScaled(rs) == FloatMul100(rs) \div 100000

\* --------------------------------------------------------- PBFTCoordinator
RequiredPrepare(f) == 2 * f
\* slip: the COMMIT threshold without its margin over PREPARE
RequiredCommitNoMargin(f) == 2 * f
RequiredCommit(f) == 2 * f + 1

NewCoordinator(total_nodes, faulty_nodes) ==
  [n |-> total_nodes, f |-> faulty_nodes,
   required_prepare |-> RequiredPrepare(faulty_nodes),
   required_commit  |-> RequiredCommit(faulty_nodes),
   view |-> 0, sequence |-> 0]

\* slip: the counter is read but not advanced
NextSequenceReused(s) == s
NextSequence(s) == s + 1

\* slip: the loop appends every node's vote twice
PrepareVotesTwice(c) ==
  LET votes == SelectSeq(Range(1, c.n), LAMBDA id : id <= c.n - c.f - 1)
  IN votes \o votes
\* node ids appended by the loop of prepare_phase
PrepareVotes(c) == SelectSeq(Range(1, c.n), LAMBDA id : id <= c.n - c.f - 1)
\* slip: the leader NODE_0 casts no COMMIT vote
CommitVotesNoLeader(c) == SelectSeq(Range(1, c.n), LAMBDA id : id <= c.n - c.f - 1)
\* node ids appended by the loop of commit_phase
CommitVotes(c) == SelectSeq(Range(0, c.n), LAMBDA id : id <= c.n - c.f - 1)

\* slip: one vote short still counts as a quorum
PreparedOffByOne(c, votes) == Len(votes) >= c.required_prepare - 1
Prepared(c, votes) == Len(votes) >= c.required_prepare
\* slip: strict comparison with the threshold
CommittedStrict(c, commits) == Len(commits) > c.required_commit
Committed(c, commits) == Len(commits) >= c.required_commit

\* ---------------------------------------------------------------- ledger
\* verifyHash(h): (exists, recordId)
LedgerHas(h) == \E i \in 1..Len(records) : records[i].dataHash = h
ExistingId(h) == CHOOSE i \in 1..Len(records) : records[i].dataHash = h

\* The ledger is write-once: submitRecord of a digest it already holds reverts.
SubmitRecordAccepts(h) == ~LedgerHas(h)

\* ----------------------------------------------------------------- state
IdleReq ==
  [pc |-> "idle", data |-> {}, payload |-> {}, data_hash |-> {}, pp_msg |-> {},
   votes |-> <<>>, prepared |-> {}, commits |-> <<>>, commit_result |-> {},
   connects |-> 0, tx_sent |-> FALSE, receipt |-> {}, response |-> {}]
\* connects: calls of get_web3_connection; tx_sent: tx_hash is bound;
\* receipt: what the ledger call path ended with (a receipt or the exception)

\* slip: the handlers run on threads, any of them at any time
LoopRunsAny(at) == TRUE
\* The event loop runs one handler at a time: submit_ml_prediction is an
\* async def without an await, so it runs from entry to return before the
\* loop takes up another request.  LoopRuns(0): the loop is free;
\* LoopRuns(r): it is inside the handler of request r.
LoopRuns(at) == running = at

Init ==
  /\ constructed = FALSE
  /\ pbft = NewCoordinator(0, 0)
  /\ broadcast = <<>>
  /\ now = 0
  /\ running = 0
  /\ req = [r \in Req |-> IdleReq]
  /\ records = <<>>
  /\ txlog = <<>>
  /\ reply = {}

\* pbft = PBFTCoordinator(total_nodes, faulty_nodes)
Construct(total_nodes, faulty_nodes) ==
  /\ ~constructed
  /\ constructed' = TRUE
  /\ pbft' = NewCoordinator(total_nodes, faulty_nodes)
  /\ UNCHANGED <<broadcast, now, running, req, records, txlog, reply>>

\* HTTPException(status_code, detail) and BlockchainResponse(...); a detail
\* is the list of the parts its text is made of
HttpError(code, h, committed, detail) ==
  [status |-> code, success |-> FALSE, record_id |-> {}, data_hash |-> h,
   pbft_committed |-> committed, detail |-> detail]
\* the detail of the 503 raised when run_consensus returned False
ConsensusFailedDetail == <<"PBFT consensus failed - transaction not committed">>
\* f"Blockchain submission failed: {str(e)}"
SubmissionFailedDetail(e) == <<"Blockchain submission failed: ", e>>
Success(h, rid) ==
  [status |-> 200, success |-> TRUE, record_id |-> rid, data_hash |-> h,
   pbft_committed |-> TRUE]

Finish(r, fields) ==
  /\ req' = [req EXCEPT ![r] = fields]
  /\ running' = 0

\* slip: the le= bounds of the fields are not enforced
ValidNoUpperBound(data) ==
  /\ data.rf_prediction >= 0
  /\ data.rf_confidence >= 0
  /\ data.risk_score >= 0
\* MLPredictionInput: rf_prediction ge=0 le=1, rf_confidence ge=0.0 le=1.0,
\* risk_score ge=0.0 le=100.0
Valid(data) ==
  /\ data.rf_prediction >= 0 /\ data.rf_prediction <= 1
  /\ data.rf_confidence >= 0 /\ data.rf_confidence <= 10000000
  /\ data.risk_score >= 0 /\ data.risk_score <= 10000000

\* the 422 FastAPI answers when the body fails MLPredictionInput
ValidationError ==
  [status |-> 422, success |-> FALSE, record_id |-> {}, data_hash |-> <<>>,
   pbft_committed |-> FALSE, detail |-> <<"value_error">>]

\* POST /submit with a body that fails validation: submit_ml_prediction is
\* not entered
submit_rejected(r, data) ==
  /\ constructed
  /\ LoopRuns(0)
  /\ req[r].pc = "idle"
  /\ \A q \in Req : q < r => req[q].pc # "idle"
  /\ ~Valid(data)
  /\ req' = [req EXCEPT ![r].pc = "rejected", ![r].data = {data},
                        ![r].response = {ValidationError}]
  /\ UNCHANGED <<constructed, pbft, broadcast, now, running, records, txlog, reply>>

\* submit_ml_prediction, steps 1 and 2: payload (with the clock reading ts)
\* and fingerprint.  Requests are numbered in the order the loop takes them up.
submit_begin(r, data, ts) ==
  /\ constructed
  /\ LoopRuns(0)
  /\ req[r].pc = "idle"
  /\ \A q \in Req : q < r => req[q].pc # "idle"
  /\ Valid(data)
  /\ ts >= now
  /\ now' = ts
  /\ running' = r
  /\ LET payload == BuildPayload(data, ts)
     IN req' = [req EXCEPT ![r].pc = "pre_prepare", ![r].data = {data},
                           ![r].payload = {payload},
                           ![r].data_hash = {compute_sha256(payload)}]
  /\ UNCHANGED <<constructed, pbft, broadcast, records, txlog, reply>>

Hash(r) == CHOOSE h \in req[r].data_hash : TRUE
Data(r) == CHOOSE d \in req[r].data : TRUE
Payload(r) == CHOOSE p \in req[r].payload : TRUE

\* slip: every round also starts a new view
pre_prepare_new_view(r) ==
  /\ LoopRuns(r)
  /\ req[r].pc = "pre_prepare"
  /\ pbft' = [pbft EXCEPT !.sequence = NextSequence(pbft.sequence), !.view = @ + 1]
  /\ req' = [req EXCEPT ![r].pc = "pre_prepare_msg"]
  /\ UNCHANGED <<constructed, broadcast, now, running, records, txlog, reply>>

\* PBFTCoordinator.pre_prepare: self.sequence += 1
pre_prepare_increment(r) ==
  /\ LoopRuns(r)
  /\ req[r].pc = "pre_prepare"
  /\ pbft' = [pbft EXCEPT !.sequence = NextSequence(pbft.sequence)]
  /\ req' = [req EXCEPT ![r].pc = "pre_prepare_msg"]
  /\ UNCHANGED <<constructed, broadcast, now, running, records, txlog, reply>>

\* PBFTCoordinator.pre_prepare: the message, which reads self.sequence
pre_prepare(r) ==
  /\ LoopRuns(r)
  /\ req[r].pc = "pre_prepare_msg"
  /\ LET message == [phase |-> "PRE-PREPARE", view |-> pbft.view,
                     sequence |-> pbft.sequence, digest |-> Hash(r),
                     payload |-> Payload(r), leader |-> 0]
     IN /\ broadcast' = Append(broadcast, message)
        /\ req' = [req EXCEPT ![r].pc = "prepare", ![r].pp_msg = {message}]
  /\ UNCHANGED <<constructed, pbft, now, running, records, txlog, reply>>

\* PBFTCoordinator.prepare_phase
prepare_phase(r) ==
  /\ LoopRuns(r)
  /\ req[r].pc = "prepare"
  /\ LET votes == PrepareVotes(pbft)
     IN req' = [req EXCEPT ![r].pc = "commit", ![r].votes = votes,
                           ![r].prepared = {Prepared(pbft, votes)}]
  /\ UNCHANGED <<constructed, pbft, broadcast, now, running, records, txlog, reply>>

\* slip: COMMIT votes are collected whether or not the round is prepared
commit_phase_unguarded(r) ==
  /\ LoopRuns(r)
  /\ req[r].pc = "commit"
  /\ LET commits == CommitVotes(pbft)
     IN req' = [req EXCEPT ![r].pc = "consensus_result",
                  ![r].commits = commits,
                  ![r].commit_result =
                     {[committed |-> Committed(pbft, commits), reason |-> {}]}]
  /\ UNCHANGED <<constructed, pbft, broadcast, now, running, records, txlog, reply>>

\* PBFTCoordinator.commit_phase
commit_phase(r) ==
  /\ LoopRuns(r)
  /\ req[r].pc = "commit"
  /\ IF req[r].prepared = {FALSE}
       THEN req' = [req EXCEPT ![r].pc = "consensus_result",
                      ![r].commit_result =
                         {[committed |-> FALSE, reason |-> {"PREPARE phase failed"}]}]
       ELSE LET commits == CommitVotes(pbft)
            IN req' = [req EXCEPT ![r].pc = "consensus_result",
                         ![r].commits = commits,
                         ![r].commit_result =
                            {[committed |-> Committed(pbft, commits), reason |-> {}]}]
  /\ UNCHANGED <<constructed, pbft, broadcast, now, running, records, txlog, reply>>

CommitResult(r) == CHOOSE c \in req[r].commit_result : TRUE

\* slip: the handler goes on to the ledger whatever run_consensus returned
consensus_result_ungated(r) ==
  /\ LoopRuns(r)
  /\ req[r].pc = "consensus_result"
  /\ req[r].data # {}
  /\ req' = [req EXCEPT ![r].pc = "connect"]
  /\ UNCHANGED <<constructed, pbft, broadcast, now, running, records, txlog, reply>>

\* run_consensus returns; `if not pbft_committed: raise HTTPException(503)`
consensus_result(r) ==
  /\ LoopRuns(r)
  /\ req[r].pc = "consensus_result"
  /\ req[r].data # {}
  /\ IF ~CommitResult(r).committed
       THEN Finish(r, [req[r] EXCEPT !.pc = "done",
                          !.response = {HttpError(503, Hash(r), FALSE, ConsensusFailedDetail)}])
       ELSE /\ req' = [req EXCEPT ![r].pc = "connect"]
            /\ UNCHANGED running
  /\ UNCHANGED <<constructed, pbft, broadcast, now, records, txlog, reply>>

\* pbft.run_consensus(data_hash, payload) called on the coordinator itself,
\* outside /submit: the caller supplies both arguments
run_consensus_call(r, data_hash, payload) ==
  /\ constructed
  /\ LoopRuns(0)
  /\ req[r].pc = "idle"
  /\ \A q \in Req : q < r => req[q].pc # "idle"
  /\ running' = r
  /\ req' = [req EXCEPT ![r].pc = "pre_prepare", ![r].payload = {payload},
                        ![r].data_hash = {data_hash}]
  /\ UNCHANGED <<constructed, pbft, broadcast, now, records, txlog, reply>>

\* run_consensus returns commit_result.get("committed", False) to that caller
run_consensus_return(r) ==
  /\ LoopRuns(r)
  /\ req[r].pc = "consensus_result"
  /\ req[r].data = {}
  /\ Finish(r, [req[r] EXCEPT !.pc = "returned",
                    !.response = {[success |-> CommitResult(r).committed]}])
  /\ UNCHANGED <<constructed, pbft, broadcast, now, records, txlog, reply>>

\* get_web3_connection(): raises ConnectionError unless w3.is_connected()
connect(r) ==
  /\ LoopRuns(r)
  /\ req[r].pc = "connect"
  /\ \E is_connected \in BOOLEAN :
       IF is_connected
         THEN /\ req' = [req EXCEPT ![r].pc = "send", ![r].connects = @ + 1]
              /\ UNCHANGED running
         ELSE Finish(r, [req[r] EXCEPT !.pc = "done", !.connects = @ + 1,
                            !.receipt = {"ConnectionError"},
                            !.response = {HttpError(500, Hash(r), TRUE,
                                             SubmissionFailedDetail("ConnectionError"))}])
  /\ UNCHANGED <<constructed, pbft, broadcast, now, records, txlog, reply>>

\* slip: participant_id and record_type are passed in each other's place
SubmitRecordTxnSwapped(r) ==
  [dataHash |-> hash_to_bytes32(Hash(r)),
   participantId |-> Data(r).record_type,
   recordType |-> Data(r).participant_id,
   riskScore |-> RiskScoreScaled(Data(r).risk_score),
   isAnomaly |-> Data(r).is_anomaly]
\* the submitRecord transaction built from the request
SubmitRecordTxn(r) ==
  [dataHash |-> hash_to_bytes32(Hash(r)),
   participantId |-> Data(r).participant_id,
   recordType |-> Data(r).record_type,
   riskScore |-> RiskScoreScaled(Data(r).risk_score),
   isAnomaly |-> Data(r).is_anomaly]

\* build_transaction, sign_transaction, send_raw_transaction
send_raw_transaction(r) ==
  /\ LoopRuns(r)
  /\ req[r].pc = "send"
  /\ \E accepted \in BOOLEAN :
       IF accepted
         THEN /\ txlog' = Append(txlog, SubmitRecordTxn(r))
              /\ req' = [req EXCEPT ![r].pc = "receipt", ![r].tx_sent = TRUE]
              /\ UNCHANGED running
         ELSE /\ Finish(r, [req[r] EXCEPT !.pc = "done", !.receipt = {"SendError"},
                               !.response = {HttpError(500, Hash(r), TRUE,
                                                SubmissionFailedDetail("SendError"))}])
              /\ UNCHANGED txlog
  /\ UNCHANGED <<constructed, pbft, broadcast, now, records, reply>>

\* wait_for_transaction_receipt, process_receipt and the response
wait_for_receipt(r) ==
  /\ LoopRuns(r)
  /\ req[r].pc = "receipt"
  /\ LET txn == SubmitRecordTxn(r)
     IN \E outcome \in {"mined", "reverted", "timeout"} :
          CASE outcome = "mined" /\ SubmitRecordAccepts(txn.dataHash) ->
                 /\ records' = Append(records, txn)
                 /\ Finish(r, [req[r] EXCEPT !.pc = "done", !.receipt = {"mined"},
                                  !.response = {Success(Hash(r), {Len(records) + 1})}])
            [] outcome = "timeout" ->
                 /\ UNCHANGED records
                 /\ Finish(r, [req[r] EXCEPT !.pc = "done", !.receipt = {"TimeExhausted"},
                                  !.response = {HttpError(500, Hash(r), TRUE,
                                                   SubmissionFailedDetail("TimeExhausted"))}])
            [] OTHER ->
                 /\ UNCHANGED records
                 /\ Finish(r, [req[r] EXCEPT !.pc = "done",
                                  !.receipt = {IF LedgerHas(txn.dataHash)
                                                 THEN "reverted_duplicate" ELSE "reverted"},
                                  !.response = {Success(Hash(r), {})}])
  /\ UNCHANGED <<constructed, pbft, broadcast, now, txlog, reply>>

Step(r) ==
  \/ pre_prepare_increment(r)
  \/ pre_prepare(r)
  \/ prepare_phase(r)
  \/ commit_phase(r)
  \/ consensus_result(r)
  \/ connect(r)
  \/ send_raw_transaction(r)
  \/ wait_for_receipt(r)

Next ==
  \/ \E total_nodes \in NodeCounts, faulty_nodes \in FaultCounts :
       Construct(total_nodes, faulty_nodes)
  \/ \E r \in Req, data \in SpecBodies, ts \in 0..MaxTime : submit_begin(r, data, ts)
  \/ \E r \in Req, data \in SpecBodies : submit_rejected(r, data)
  \/ \E r \in Req : Step(r)

Spec == Init /\ [][Next]_vars

\* a handler that has started runs to its return
FairSpec == Spec /\ \A r \in Req : WF_vars(Step(r))

\* The arguments of the direct calls: the payload of TX-1, with its own
\* digest and with the digest of another payload.
DirectPayload == BuildPayload(Body1, 0)
DirectDigests == {compute_sha256(DirectPayload), compute_sha256(BuildPayload(Body2, 0))}

\* One submission, or one direct call of run_consensus, under every
\* coordinator of up to MaxNodes nodes.
QuorumNext ==
  \/ \E total_nodes \in 0..MaxNodes, faulty_nodes \in (0 - 1)..(MaxNodes \div 3) :
       Construct(total_nodes, faulty_nodes)
  \/ \E data \in Bodies, ts \in 0..MaxTime : submit_begin(1, data, ts)
  \/ \E data \in Bodies : submit_rejected(1, data)
  \/ \E data_hash \in DirectDigests : run_consensus_call(1, data_hash, DirectPayload)
  \/ Step(1)
  \/ run_consensus_return(1)

QuorumSpec == Init /\ [][QuorumNext]_vars

\* get_record: risk_score = rec[3] / 100.0, in units of 1e-5
GetRecordRisk(record_id) == records[record_id].riskScore * 1000

\* --------------------------------------------------------------- queries
\* The answer of a query handler: the dict it returns or the HTTPException.
QueryReply(query, status, connected, nodes, total, recs, ids) ==
  [query |-> query, status |-> status, web3_connected |-> connected,
   pbft_nodes |-> nodes, total_records |-> total, records |-> recs,
   record_id |-> ids]

\* the fields get_record and get_recent_records return for record rec_id
RecordView(rec_id) ==
  [record_id |-> rec_id,
   data_hash |-> <<"0x", records[rec_id].dataHash>>,
   participant_id |-> records[rec_id].participantId,
   record_type |-> records[rec_id].recordType,
   risk_score |-> GetRecordRisk(rec_id),
   is_anomaly |-> records[rec_id].isAnomaly]

\* slip: the status query starts a PRE-PREPARE of its own
health_check_probing(is_connected) ==
  /\ constructed
  /\ LoopRuns(0)
  /\ pbft' = [pbft EXCEPT !.sequence = NextSequence(pbft.sequence)]
  /\ reply' = {QueryReply("health", 200, is_connected, {pbft.n}, {Len(records)}, <<>>, {})}
  /\ UNCHANGED <<constructed, broadcast, now, running, req, records, txlog>>

\* GET /health: an unreachable ledger is reported, not raised
health_check(is_connected) ==
  /\ constructed
  /\ LoopRuns(0)
  /\ reply' = {IF is_connected
                 THEN QueryReply("health", 200, TRUE, {pbft.n}, {Len(records)}, <<>>, {})
                 ELSE QueryReply("health", 200, FALSE, {}, {}, <<>>, {})}
  /\ UNCHANGED <<constructed, pbft, broadcast, now, running, req, records, txlog>>

\* GET /record/{record_id} of a stored record: any exception becomes 404
get_record(record_id, is_connected) ==
  /\ constructed
  /\ LoopRuns(0)
  /\ record_id \in 1..Len(records)
  /\ reply' = {IF is_connected
                 THEN QueryReply("record", 200, TRUE, {}, {}, <<RecordView(record_id)>>, {record_id})
                 ELSE QueryReply("record", 404, FALSE, {}, {}, <<>>, {})}
  /\ UNCHANGED <<constructed, pbft, broadcast, now, running, req, records, txlog>>

\* GET /verify/{data_hash}: any exception becomes 500
verify_hash(data_hash, is_connected) ==
  /\ constructed
  /\ LoopRuns(0)
  /\ reply' = {IF is_connected
                 THEN QueryReply("verify", 200, TRUE, {}, {}, <<>>,
                                 IF LedgerHas(hash_to_bytes32(data_hash))
                                   THEN {ExistingId(hash_to_bytes32(data_hash))} ELSE {})
                 ELSE QueryReply("verify", 500, FALSE, {}, {}, <<>>, {})}
  /\ UNCHANGED <<constructed, pbft, broadcast, now, running, req, records, txlog>>

\* GET /records/recent?count=: the newest min(count, total) records
get_recent_records(count, is_connected) ==
  /\ constructed
  /\ LoopRuns(0)
  /\ LET total == Len(records)
         shown == IF count < total THEN count ELSE total
     IN reply' = {IF is_connected
                    THEN QueryReply("recent", 200, TRUE, {}, {total},
                                    [i \in 1..shown |-> RecordView(total - (i - 1))], {})
                    ELSE QueryReply("recent", 500, FALSE, {}, {}, <<>>, {})}
  /\ UNCHANGED <<constructed, pbft, broadcast, now, running, req, records, txlog>>

\* the digests the verify queries ask for
QueryDigests == {compute_sha256(BuildPayload(data, 0)) : data \in Attestations}

\* The service as deployed, pbft = PBFTCoordinator(4, 1), with its query
\* endpoints.
QueryNext ==
  \/ Construct(4, 1)
  \/ \E r \in Req, data \in Attestations, ts \in 0..MaxTime : submit_begin(r, data, ts)
  \/ \E r \in Req : Step(r)
  \/ \E is_connected \in BOOLEAN : health_check(is_connected)
  \/ \E record_id \in 1..MaxReq, is_connected \in BOOLEAN : get_record(record_id, is_connected)
  \/ \E data_hash \in QueryDigests, is_connected \in BOOLEAN : verify_hash(data_hash, is_connected)
  \/ \E count \in {1, 10}, is_connected \in BOOLEAN : get_recent_records(count, is_connected)

QuerySpec == Init /\ [][QueryNext]_vars

\* ------------------------------------------------------------ round phases
\* The phase of request r's consensus round, read off the handler's position
\* and the results run_consensus has so far.
Phase(r) ==
  CASE req[r].pc \in {"idle", "rejected"} -> "NONE"
    [] req[r].pc \in {"pre_prepare", "pre_prepare_msg"} -> "PRE_PREPARE"
    [] req[r].pc = "prepare" -> "PREPARING"
    [] req[r].pc = "commit" -> IF req[r].prepared = {TRUE} THEN "PREPARED" ELSE "PREPARING"
    [] OTHER -> IF CommitResult(r).committed THEN "COMMITTED" ELSE "ABORTED"

Response(r) == CHOOSE x \in req[r].response : TRUE
Done(r) == req[r].pc = "done"
PastPrepare(r) ==
  req[r].pc \in {"commit", "consensus_result", "connect", "send", "receipt", "done", "returned"}
PastCommit(r) ==
  req[r].pc \in {"consensus_result", "connect", "send", "receipt", "done", "returned"}
InLedgerPath(r) == req[r].pc \in {"connect", "send", "receipt"}
\* N >= 3f+1 with f >= 0, the configuration the class documents
ValidConfig == pbft.f >= 0 /\ pbft.n >= 3 * pbft.f + 1
TxCount(h) == Cardinality({i \in 1..Len(txlog) : txlog[i].dataHash = h})

\* ------------------------------------------------------------------ claims

\* C1: a ledger write (and any step of the ledger path) happens only for a
\* request whose consensus round ended COMMITTED; a request whose round ended
\* not committed finishes with the 503 consensus-failure outcome and never
\* connected to the ledger or sent a transaction; the ledger holds exactly the
\* transactions of committed requests.
C1_WriteOnlyAfterCommitted ==
  /\ \A r \in Req :
       /\ (InLedgerPath(r) \/ req[r].connects > 0 \/ req[r].tx_sent)
             => Phase(r) = "COMMITTED"
       /\ (Done(r) /\ Phase(r) = "ABORTED")
             => /\ Response(r).status = 503
                /\ ~Response(r).success
                /\ ~Response(r).pbft_committed
                /\ req[r].connects = 0
                /\ ~req[r].tx_sent
  /\ Len(txlog) = Cardinality({r \in Req : req[r].tx_sent})

\* C1 witness: a committed request has sent its submitRecord transaction.
C1_Witness ==
  \E r \in Req : Done(r) /\ req[r].tx_sent /\ Phase(r) = "COMMITTED" /\ Len(txlog) > 0

\* C2 (as claimed): under a valid configuration, two finished submissions of
\* one digest, neither of which met an unavailable ledger, caused exactly one
\* submitRecord transaction and both callers hold the same record id.
C2_SameDigestOneWrite ==
  \A r1, r2 \in Req :
    ( /\ ValidConfig
      /\ r1 # r2
      /\ Done(r1) /\ Done(r2)
      /\ req[r1].data_hash = req[r2].data_hash
      /\ req[r1].receipt \subseteq {"mined", "reverted_duplicate"}
      /\ req[r2].receipt \subseteq {"mined", "reverted_duplicate"}
      /\ Phase(r1) = "COMMITTED" /\ Phase(r2) = "COMMITTED" )
    => /\ TxCount(hash_to_bytes32(Hash(r1))) = 1
       /\ Response(r1).record_id # {}
       /\ Response(r1).record_id = Response(r2).record_id

\* C3: the sequence numbers of the PRE-PREPARE messages, in the order they
\* were issued, are strictly increasing (so none is reused), whatever became
\* of the earlier rounds, and the counter is the last one issued.
C3_SequenceStrictlyIncreasing ==
  /\ \A i, j \in 1..Len(broadcast) :
       i < j => broadcast[i].sequence < broadcast[j].sequence
  /\ \A i \in 1..Len(broadcast) : broadcast[i].sequence <= pbft.sequence
  /\ \A r \in Req : \A m \in req[r].pp_msg :
       \E i \in 1..Len(broadcast) : broadcast[i] = m

\* C3 witness: a round was started after an earlier round ended ABORTED.
C3_Witness ==
  \E r1, r2 \in Req :
    /\ Done(r1) /\ Phase(r1) = "ABORTED"
    /\ \E m1 \in req[r1].pp_msg, m2 \in req[r2].pp_msg : m1.sequence < m2.sequence

\* C4: with f >= 0 and N >= 3f+1 the coordinator's thresholds are 2f and
\* 2f+1 (2 and 3 for N=4, f=1; 4 and 5 for N=7, f=2) in every state after
\* construction.
C4_Thresholds ==
  (constructed /\ pbft.f >= 0 /\ pbft.n >= 3 * pbft.f + 1)
    => /\ pbft.required_prepare = 2 * pbft.f
       /\ pbft.required_commit = 2 * pbft.f + 1
       /\ pbft.required_commit = pbft.required_prepare + 1
       /\ (pbft.n = 4 /\ pbft.f = 1)
             => (pbft.required_prepare = 2 /\ pbft.required_commit = 3)
       /\ (pbft.n = 7 /\ pbft.f = 2)
             => (pbft.required_prepare = 4 /\ pbft.required_commit = 5)

\* C4 witness: N=7, f=2 after a submission has been served.
C4_Witness ==
  /\ constructed /\ pbft.n = 7 /\ pbft.f = 2
  /\ pbft.required_prepare = 4 /\ pbft.required_commit = 5
  /\ Done(1)

\* C5 (as claimed): no coordinator exists, and no round was started, with
\* N < 3f+1 or f < 0.
C5_InvalidConfigRejected ==
  (constructed \/ Len(broadcast) > 0)
    => (pbft.f >= 0 /\ pbft.n >= 3 * pbft.f + 1)

\* C6: a round whose PREPARE votes number fewer than required_prepare is
\* never PREPARED or COMMITTED and collects no COMMIT vote; once commit_phase
\* has run it is ABORTED with the PREPARE-failure reason; and such a round
\* always gets there.
C6_Safe(r) ==
  (PastPrepare(r) /\ Len(req[r].votes) < pbft.required_prepare)
    => /\ Phase(r) \notin {"PREPARED", "COMMITTED"}
       /\ req[r].commits = <<>>
       /\ PastCommit(r)
             => /\ Phase(r) = "ABORTED"
                /\ CommitResult(r).reason = {"PREPARE phase failed"}
C6_Aborted(r) ==
  /\ Done(r)
  /\ Phase(r) = "ABORTED"
  /\ CommitResult(r).reason = {"PREPARE phase failed"}
C6_PrepareQuorumNotReached ==
  /\ [](\A r \in Req : C6_Safe(r))
  /\ \A r \in Req :
       (PastPrepare(r) /\ Len(req[r].votes) < pbft.required_prepare) ~> C6_Aborted(r)

\* C6 witness: a finished round that had too few PREPARE votes.
C6_Witness ==
  \E r \in Req :
    /\ Len(req[r].votes) < pbft.required_prepare
    /\ Len(req[r].votes) > 0
    /\ C6_Aborted(r)

\* C7: a PREPARED round whose COMMIT votes number at least required_commit is
\* COMMITTED once commit_phase has run, always gets there, and a COMMITTED
\* round stays COMMITTED (one decision per round).
C7_Safe(r) ==
  (PastCommit(r) /\ req[r].prepared = {TRUE}
     /\ Len(req[r].commits) >= pbft.required_commit)
    => Phase(r) = "COMMITTED"
C7_CommittedOnce ==
  /\ [](\A r \in Req : C7_Safe(r))
  /\ [][\A r \in Req : Phase(r) = "COMMITTED" => Phase(r)' = "COMMITTED"]_vars
  /\ \A r \in Req :
       (Phase(r) = "PREPARED" /\ Len(CommitVotes(pbft)) >= pbft.required_commit)
          ~> (Phase(r) = "COMMITTED")

\* C7 witness: a finished round that met the COMMIT threshold exactly.
C7_Witness ==
  \E r \in Req :
    /\ Done(r) /\ req[r].prepared = {TRUE}
    /\ Len(req[r].commits) = pbft.required_commit
    /\ Phase(r) = "COMMITTED"

\* C8 (as claimed): under a valid configuration, a submission whose write
\* the ledger rejected as a duplicate digest ends in success with the id of
\* the existing record.
C8_DuplicateIsSuccessWithExistingId ==
  \A r \in Req :
    (ValidConfig /\ Done(r) /\ req[r].receipt = {"reverted_duplicate"})
      => /\ Response(r).success
         /\ Response(r).record_id = {ExistingId(hash_to_bytes32(Hash(r)))}

\* C9 (as claimed): under a valid configuration, a submission that ended in
\* failure because the ledger could not be reached had tried to reach it more
\* than once.
C9_TransientFailureRetried ==
  \A r \in Req :
    (ValidConfig /\ Done(r) /\ req[r].receipt = {"ConnectionError"})
      => req[r].connects > 1

\* C10 (as claimed): under a valid configuration, a submission reports
\* success only if its own write was accepted and is on the ledger under the
\* record id it reports.
C10_SuccessOnlyIfRecorded ==
  \A r \in Req :
    (ValidConfig /\ Done(r) /\ Response(r).success)
      => /\ req[r].receipt = {"mined"}
         /\ \E id \in Response(r).record_id :
              /\ id \in 1..Len(records)
              /\ records[id].dataHash = hash_to_bytes32(Hash(r))

\* C11: a request whose body has a field out of range (rf_confidence outside
\* [0, 1], rf_prediction outside {0, 1}, risk_score outside [0, 100]) is
\* answered with the validation error and nothing else happens for it: no
\* fingerprint, no PRE-PREPARE and so no sequence number, no vote, no ledger
\* connection and no transaction.  Sequence numbers, broadcasts and
\* transactions are accounted for by the other requests alone.
C11_OutOfRange(data) ==
  \/ data.rf_confidence < 0 \/ data.rf_confidence > 10000000
  \/ data.rf_prediction \notin {0, 1}
  \/ data.risk_score < 0 \/ data.risk_score > 10000000
C11_InvalidPayloadRejected ==
  /\ \A r \in Req :
       (req[r].data # {} /\ C11_OutOfRange(Data(r)))
          => /\ req[r].pc = "rejected"
             /\ Response(r).status = 422
             /\ ~Response(r).success
             /\ req[r].data_hash = {}
             /\ req[r].pp_msg = {}
             /\ req[r].votes = <<>>
             /\ req[r].commits = <<>>
             /\ req[r].connects = 0
             /\ ~req[r].tx_sent
  /\ Len(broadcast) =
       Cardinality({r \in Req : /\ req[r].pp_msg # {}
                                /\ (req[r].data = {} \/ ~C11_OutOfRange(Data(r)))})
  /\ pbft.sequence =
       Len(broadcast) + Cardinality({r \in Req : req[r].pc = "pre_prepare_msg"})
  /\ Len(txlog) <= Len(broadcast)

\* C11 witness: a request with rf_prediction 2 was rejected under N=4, f=1.
C11_Witness ==
  \E r \in Req :
    /\ pbft.n = 4 /\ pbft.f = 1
    /\ req[r].pc = "rejected" /\ Data(r).rf_prediction = 2
    /\ Response(r).status = 422
    /\ pbft.sequence = 0

\* C12: the digest is a function of the payload's content alone: computing
\* it again gives the same value, and a payload whose keys were inserted in
\* another order (any two neighbouring items exchanged, which generates
\* every order) has the same digest.  Computing the fingerprint changes
\* neither the coordinator nor the ledger nor the transactions sent.
C12_Swap(p, i) ==
  [k \in 1..Len(p) |-> IF k = i THEN p[i + 1] ELSE IF k = i + 1 THEN p[i] ELSE p[k]]
C12_SameInAnyOrder(r) ==
  /\ compute_sha256(Payload(r)) = Hash(r)
  /\ \A i \in 1..(Len(Payload(r)) - 1) :
        /\ C12_Swap(Payload(r), i) # Payload(r)
        /\ compute_sha256(C12_Swap(Payload(r), i)) = Hash(r)
C12_DigestDeterministic ==
  /\ [](\A r \in Req : (req[r].data # {} /\ req[r].data_hash # {}) => C12_SameInAnyOrder(r))
  /\ [][\A r \in Req :
          (req[r].data_hash = {} /\ req'[r].data # {} /\ req'[r].data_hash # {})
             => /\ pbft' = pbft
                /\ broadcast' = broadcast
                /\ records' = records
                /\ txlog' = txlog]_vars

\* C12 witness: a served request whose payload has a non-empty metadata
\* dict has its fingerprint.
C12_Witness ==
  \E r \in Req :
    Done(r) /\ req[r].data_hash # {} /\ Data(r).metadata # <<>> /\ Len(Payload(r)) = 7

\* the value a payload holds under a key
PayloadField(p, key) == p[CHOOSE i \in 1..Len(p) : p[i][1] = key][2]

C13_Digested(d, ts) ==
  <<d.transaction_id, d.rf_prediction, Round6(d.rf_confidence),
    Round6(d.anomaly_score), Round4(d.risk_score), ts, d.metadata>>
C14_TwoDecimals(rs) == rs % 1000 = 0
C14_FixedPointRoundTrip ==
  \A r \in Req :
    ( /\ ValidConfig
      /\ Done(r)
      /\ Response(r).success
      /\ Response(r).record_id # {}
      /\ C14_TwoDecimals(Data(r).risk_score) )
      => \A id \in Response(r).record_id :
            /\ records[id].riskScore * 1000 = Data(r).risk_score
            /\ GetRecordRisk(id) = Data(r).risk_score

\* C15: the submitRecord transaction of a request carries the digest that
\* was computed from the request's payload and broadcast in its PRE-PREPARE
\* message, the request's participant_id, record_type and is_anomaly as they
\* came, and risk_score in hundredths; it is sent for committed rounds only,
\* and every transaction sent and every record stored is such a one.  The
\* body TX-1 (risk_score 82.5, is_anomaly true) under N=4, f=1 is committed
\* and its transaction has riskScore 8250 and isAnomaly true.
C15_WriteOf(r) ==
  [dataHash |-> CanonicalJson(Payload(r)),
   participantId |-> Data(r).participant_id,
   recordType |-> Data(r).record_type,
   riskScore |-> Data(r).risk_score \div 1000,
   isAnomaly |-> Data(r).is_anomaly]
C16_PrepareOnlyOnMatchingDigest ==
  \A r \in Req : \A m \in req[r].pp_msg :
    (ValidConfig /\ PastPrepare(r) /\ m.digest # compute_sha256(m.payload))
      => /\ req[r].votes = <<>>
         /\ Phase(r) # "COMMITTED"

\* C17: in every round no node identifier occurs twice among the PREPARE
\* votes nor twice among the COMMIT votes, so the counts compared with
\* required_prepare and required_commit are the numbers of distinct voting
\* nodes.
C17_Ids(votes) == {votes[i] : i \in 1..Len(votes)}
C17_NoRepeat(votes) ==
  \A i, j \in 1..Len(votes) : votes[i] = votes[j] => i = j
C17_VotesDistinctByNode ==
  \A r \in Req :
    /\ C17_NoRepeat(req[r].votes)
    /\ C17_NoRepeat(req[r].commits)
    /\ Len(req[r].votes) = Cardinality(C17_Ids(req[r].votes))
    /\ Len(req[r].commits) = Cardinality(C17_Ids(req[r].commits))
    /\ PastPrepare(r)
         => req[r].prepared = {Cardinality(C17_Ids(req[r].votes)) >= pbft.required_prepare}
    /\ (PastCommit(r) /\ req[r].prepared = {TRUE})
         => CommitResult(r).committed
              = (Cardinality(C17_Ids(req[r].commits)) >= pbft.required_commit)

\* C17 witness: a round under N=7, f=2 with four PREPARE votes and five
\* COMMIT votes counted.
C17_Witness ==
  \E r \in Req :
    /\ pbft.n = 7 /\ pbft.f = 2
    /\ PastCommit(r)
    /\ Len(req[r].votes) = 4
    /\ Len(req[r].commits) = 5

\* C18 (as claimed): the failure outcome of a request whose round ended
\* ABORTED carries that round's abort reason: the PREPARE failure for a round
\* that was not prepared, the COMMIT failure for a prepared round that was
\* not committed.
C18_AbortReason(r) ==
  IF req[r].prepared = {FALSE} THEN "PREPARE phase failed" ELSE "COMMIT phase failed"
C18_AbortReasonInOutcome ==
  \A r \in Req :
    (Done(r) /\ Phase(r) = "ABORTED")
      => \E i \in 1..Len(Response(r).detail) : Response(r).detail[i] = C18_AbortReason(r)

\* C19: no two rounds carry the same sequence number in their PRE-PREPARE
\* message and no increment is lost: the counter equals the number of rounds
\* that have incremented it, every number from 1 to the number of messages
\* is carried by exactly one message, and the message of a round carries the
\* value its own increment produced.  pre_prepare increments and reads in two
\* steps; between them the counter is not touched, because the event loop is
\* inside that one handler.
C19_Incremented(r) == req[r].pc \notin {"idle", "rejected", "pre_prepare"}
C20_SuccessCarriesRecordId ==
  \A r \in Req :
    (ValidConfig /\ Done(r) /\ Response(r).success)
      => /\ Response(r).record_id # {}
         /\ \A id \in Response(r).record_id : id \in Nat

\* C21: a step in which a query handler answers (the health query, get
\* record, verify digest or recent records, with the ledger reachable or
\* not) leaves the coordinator (n, f, thresholds, view, sequence), the
\* PRE-PREPARE messages issued, the ledger's records, the transactions sent
\* and every submission untouched; and what it answers is what the state
\* holds.
C21_QueryStep == reply' # reply
C21_QueriesReadOnly ==
  /\ [][C21_QueryStep
          => /\ pbft' = pbft
             /\ broadcast' = broadcast
             /\ records' = records
             /\ txlog' = txlog
             /\ req' = req
             /\ constructed' = constructed]_vars
  /\ [](\A q \in reply :
          /\ (q.query = "health" /\ q.web3_connected)
               => (q.pbft_nodes = {pbft.n} /\ \A t \in q.total_records : t <= Len(records))
          /\ \A i \in 1..Len(q.records) :
               /\ q.records[i].record_id \in 1..Len(records)
               /\ q.records[i] = RecordView(q.records[i].record_id))

\* C21 witness: a record is stored, two rounds have run, and the last query
\* answered was one that found the ledger unreachable.
C21_Witness ==
  /\ Len(records) > 0
  /\ pbft.sequence = 2
  /\ \E q \in reply : ~q.web3_connected /\ q.query = "record"

\* C22: with the simulated vote source (PREPARE votes from NODE_1 up to
\* NODE_(N-f-1), COMMIT votes from NODE_0 up to NODE_(N-f-1)), for N >= 0
\* and f >= 0 a round whose commit_phase has run is COMMITTED if and only
\* if N >= 3f+1, and with N >= 1 a round that was PREPARED is COMMITTED.
C22_CommitsIffQuorumConfig ==
  \A r \in Req :
    (PastCommit(r) /\ pbft.n >= 0 /\ pbft.f >= 0)
      => /\ (Phase(r) = "COMMITTED") <=> (pbft.n >= 3 * pbft.f + 1)
         /\ (pbft.n >= 1 /\ req[r].prepared = {TRUE}) => Phase(r) = "COMMITTED"
         /\ \A i \in 1..Len(req[r].votes) : req[r].votes[i] # 0
         /\ pbft.n >= 3 * pbft.f + 1
              => /\ Len(req[r].votes) = pbft.n - pbft.f - 1
                 /\ Len(req[r].commits) = pbft.n - pbft.f
                 /\ req[r].commits[1] = 0

\* C22 witness: N=1, f=0, the leader alone: no PREPARE vote, its COMMIT
\* vote, COMMITTED.
C22_Witness ==
  \E r \in Req :
    /\ pbft.n = 1 /\ pbft.f = 0
    /\ PastCommit(r)
    /\ req[r].votes = <<>>
    /\ req[r].commits = <<0>>
    /\ Phase(r) = "COMMITTED"

\* C23: a round's phase changes only along NONE -> PRE_PREPARE -> PREPARING
\* -> PREPARED -> COMMITTED, or to ABORTED from PREPARING (the PREPARE quorum
\* was missed) or from the COMMIT vote collection of a PREPARED round (the
\* COMMIT quorum was missed); COMMITTED and ABORTED are never left; a round
\* past PRE_PREPARE has its PRE-PREPARE message; COMMIT votes exist only for
\* PREPARED rounds and a COMMITTED round was PREPARED.
C23_Moves ==
  { <<"NONE", "PRE_PREPARE">>, <<"PRE_PREPARE", "PREPARING">>,
    <<"PREPARING", "PREPARED">>, <<"PREPARING", "ABORTED">>,
    <<"PREPARED", "COMMITTED">>, <<"PREPARED", "ABORTED">> }
C23_PhaseOrder ==
  /\ [][\A r \in Req :
          /\ Phase(r)' # Phase(r) => <<Phase(r), Phase(r)'>> \in C23_Moves
          /\ (Phase(r) = "PREPARING" /\ Phase(r)' = "ABORTED")
               => (req[r].prepared = {FALSE} /\ req'[r].commits = <<>>)
          /\ (Phase(r) = "PREPARING" /\ Phase(r)' = "PREPARED")
               => req'[r].commits = <<>>
          /\ (Phase(r) = "PREPARED" /\ Phase(r)' = "ABORTED")
               => (req'[r].commits = CommitVotes(pbft)
                    /\ Len(req'[r].commits) < pbft.required_commit)]_vars
  /\ [](\A r \in Req :
          /\ Phase(r) \in {"PREPARING", "PREPARED", "COMMITTED", "ABORTED"}
               => req[r].pp_msg # {}
          /\ req[r].commits # <<>> => req[r].prepared = {TRUE}
          /\ Phase(r) = "COMMITTED" => req[r].prepared = {TRUE})

\* C23 witness: under one coordinator a round has ended ABORTED out of
\* PREPARED (its COMMIT quorum was missed) and a later round is on its way.
C23_Witness ==
  \E r1, r2 \in Req :
    /\ Done(r1) /\ req[r1].prepared = {TRUE} /\ Phase(r1) = "ABORTED"
    /\ Phase(r2) = "PREPARED"

\* C24: once the coordinator exists, no step changes its n, f, thresholds
\* or view, and a step changes its sequence only by adding 1, once per
\* round; so the sequence is the number of rounds begun, whatever way the
\* earlier ones ended (committed, aborted, or failed at the ledger), and
\* every round on the coordinator gets the same votes and the same
\* consensus result.
C24_Fixed(c) == <<c.n, c.f, c.required_prepare, c.required_commit, c.view>>
C24_OnlySequenceChanges ==
  /\ [][constructed
          => /\ C24_Fixed(pbft') = C24_Fixed(pbft)
             /\ pbft'.sequence \in {pbft.sequence, pbft.sequence + 1}
             /\ pbft'.sequence = pbft.sequence + 1
                  => \E r \in Req :
                        req[r].pc = "pre_prepare" /\ req'[r].pc = "pre_prepare_msg"]_vars
  /\ [](/\ pbft.view = 0
        /\ pbft.sequence = Cardinality({r \in Req : req[r].pp_msg # {}})
                             + Cardinality({r \in Req : req[r].pc = "pre_prepare_msg"})
        /\ \A r1, r2 \in Req :
             (Done(r1) /\ PastCommit(r2))
               => /\ req[r2].votes = req[r1].votes
                  /\ req[r2].commits = req[r1].commits
                  /\ CommitResult(r2).committed = CommitResult(r1).committed)

\* C24 witness: the first submission failed at the ledger, the second was
\* recorded, and the sequence is 2.
C24_Witness ==
  \E r1, r2 \in Req :
    /\ Done(r1) /\ Response(r1).status = 500
    /\ Done(r2) /\ Response(r2).success /\ Response(r2).record_id # {}
    /\ \E m1 \in req[r1].pp_msg, m2 \in req[r2].pp_msg : m1.sequence < m2.sequence
    /\ pbft.sequence = 2

\* C25 (as claimed): under a valid configuration the riskScore of every
\* submitRecord transaction is risk_score * 100 rounded to the nearest
\* integer, and lies in 0..10000.
C25_Nearest(rs) == (rs * 100 + 50000) \div 100000
C25_ScaledIsNearestInteger ==
  \A r \in Req :
    (ValidConfig /\ req[r].tx_sent)
      => \E i \in 1..Len(txlog) :
            /\ txlog[i].dataHash = hash_to_bytes32(Hash(r))
            /\ txlog[i].riskScore = C25_Nearest(Data(r).risk_score)
            /\ txlog[i].riskScore \in 0..10000

\* C26: for the transaction_id, rf_prediction, rf_confidence, anomaly_score,
\* risk_score and metadata of a submission and the clock reading the bridge
\* took, create_digital_fingerprint builds the payload the bridge built
\* (the same keys with the same values), the same canonical text and the
\* same digest.
C26_PipelineFingerprint(r) ==
  create_digital_fingerprint(Data(r).transaction_id, Data(r).rf_prediction,
                             Data(r).rf_confidence, Data(r).anomaly_score,
                             Data(r).risk_score, Data(r).metadata,
                             PayloadField(Payload(r), "timestamp"))
C26_Keys(p) == {p[i][1] : i \in 1..Len(p)}
C26_FingerprintsAgree ==
  \A r \in Req :
    (req[r].pc = "pre_prepare" /\ req[r].data # {})
      => /\ C26_Keys(C26_PipelineFingerprint(r).payload) = C26_Keys(Payload(r))
         /\ \A i \in 1..Len(Payload(r)) :
               PayloadField(C26_PipelineFingerprint(r).payload, Payload(r)[i][1])
                 = Payload(r)[i][2]
         /\ C26_PipelineFingerprint(r).payload_string = CanonicalJson(Payload(r))
         /\ C26_PipelineFingerprint(r).sha256_hash = Hash(r)

\* C26 witness: a submission with anomaly_score -0.3100006 has just been
\* fingerprinted by the bridge, and the pipeline digests it to the same
\* value, with anomaly_score -0.310001.
C26_Witness ==
  \E r \in Req :
    /\ req[r].pc = "pre_prepare" /\ req[r].data # {}
    /\ Data(r).anomaly_score = 0 - 3100006
    /\ PayloadField(C26_PipelineFingerprint(r).payload, "anomaly_score") = 0 - 310001
    /\ C26_PipelineFingerprint(r).sha256_hash = Hash(r)

====
